---- MODULE Spec2Model ----
(***************************************************************************)
(* Model of analyze_frame_dumps.py (GifBolt frame-dump analyzer).          *)
(*                                                                         *)
(* analyze_dumps() is one sequential function: discovery of the metadata   *)
(* and raw files, a per-file parse loop that fills the dict `frames`, and  *)
(* a sequence check over the sorted keys (range, gaps, alternation).       *)
(* Text is modelled as sequences of one-character strings so that          *)
(* str.split, str.startswith, str.strip and int() are computed as Python   *)
(* computes them.  Printed lines are collected in `output`.                *)
(***************************************************************************)
EXTENDS Integers, Sequences, FiniteSets, TLC

VARIABLES
    frame_files,  \* sorted(glob("gifbolt_frame_*.txt")): the files on disk
    raw_files,    \* len(sorted(glob("gifbolt_frame_*.raw")))
    frames,       \* the dict frames: frame_num -> record
    frames_order, \* the dict's key order (insertion order of first insert)
    idx,          \* position of the for-loop over frame_files (1-based)
    visited,      \* file positions the loop body has run for, in order
    pc,           \* position in analyze_dumps
    output        \* the lines printed so far

vars == <<frame_files, raw_files, frames, frames_order, idx, visited, pc, output>>

(***************************************************************************)
(* Bounds of the model.                                                    *)
(***************************************************************************)
MaxFiles == 3
MaxFrame == 4
RawCounts == {0, 1}

(***************************************************************************)
(* Python string primitives on sequences of characters.                    *)
(***************************************************************************)
Whitespace == {" ", "\n", "\t", "\r"}
DigitChars == <<"0", "1", "2", "3", "4", "5", "6", "7", "8", "9">>

StartsWith(s, p) ==
    /\ Len(s) >= Len(p)
    /\ SubSeq(s, 1, Len(p)) = p

\* Position of the first occurrence of sep in s at or after `from`; 0 if none.
RECURSIVE FindFrom(_, _, _)
FindFrom(s, sep, from) ==
    IF from + Len(sep) - 1 > Len(s) THEN 0
    ELSE IF \A j \in 1..Len(sep) : s[from + j - 1] = sep[j] THEN from
    ELSE FindFrom(s, sep, from + 1)

\* str.split(sep): the pieces between non-overlapping occurrences of sep,
\* scanning left to right.
RECURSIVE Split(_, _)
Split(s, sep) ==
    LET p == FindFrom(s, sep, 1)
    IN  IF p = 0 THEN <<s>>
        ELSE <<SubSeq(s, 1, p - 1)>> \o Split(SubSeq(s, p + Len(sep), Len(s)), sep)

RECURSIVE LStrip(_)
LStrip(s) ==
    IF s # <<>> /\ Head(s) \in Whitespace THEN LStrip(Tail(s)) ELSE s

RECURSIVE RStrip(_)
RStrip(s) ==
    IF s # <<>> /\ s[Len(s)] \in Whitespace THEN RStrip(SubSeq(s, 1, Len(s) - 1)) ELSE s

\* str.strip()
Strip(s) == LStrip(RStrip(s))

DigitValue(c) == (CHOOSE d \in 1..10 : DigitChars[d] = c) - 1

IsDigit(c) == \E d \in 1..10 : DigitChars[d] = c

RECURSIVE DigitsValue(_)
DigitsValue(s) ==
    IF s = <<>> THEN 0
    ELSE 10 * DigitsValue(SubSeq(s, 1, Len(s) - 1)) + DigitValue(s[Len(s)])

\* int(s) accepts surrounding whitespace, an optional sign and decimal digits.
IntBody(s) ==
    IF s # <<>> /\ Head(s) \in {"-", "+"} THEN Tail(s) ELSE s

IntOk(s) ==
    LET b == IntBody(Strip(s))
    IN  b # <<>> /\ \A j \in 1..Len(b) : IsDigit(b[j])

IntValue(s) ==
    LET t == Strip(s)
        v == DigitsValue(IntBody(t))
    IN  IF t # <<>> /\ Head(t) = "-" THEN 0 - v ELSE v

(***************************************************************************)
(* Literals of the source.                                                 *)
(***************************************************************************)
kFrame == <<"F", "r", "a", "m", "e", ":">>
kDisplayingAlt == <<"D", "i", "s", "p", "l", "a", "y", "i", "n", "g", "A", "l", "t", ":">>
kSep == <<":", " ">>
kNewline == <<"\n">>
kTrue == <<"t", "r", "u", "e">>
kFalse == <<"f", "a", "l", "s", "e">>
kMaybe == <<"m", "a", "y", "b", "e">>
DisplayWindow == 10

(***************************************************************************)
(* The metadata files the producer may have left on disk.                  *)
(***************************************************************************)
RECURSIVE Decimal(_)
Decimal(n) ==
    IF n < 10 THEN <<DigitChars[n + 1]>>
    ELSE Decimal(n \div 10) \o <<DigitChars[(n % 10) + 1]>>

FrameLine(n) == kFrame \o <<" ">> \o Decimal(n) \o kNewline

AltLine(tok) == kDisplayingAlt \o <<" ">> \o tok \o kNewline

\* "Frame: <n>\nDisplayingAlt: <tok>\n"
MetaText(n, tok) == FrameLine(n) \o AltLine(tok)

\* "Frame: <n>\n", no DisplayingAlt key
FrameOnlyText(n) == FrameLine(n)

\* "DisplayingAlt: false\n", no Frame key
NoFrameText == AltLine(kFalse)

\* "Frame: x\n", a Frame value that is no integer
BadIntText == kFrame \o <<" ", "x">> \o kNewline

\* "Frame: <n>\nDisplayingAlt:true\n": a good Frame line, then a line that fails
LateErrorText(n) == FrameLine(n) \o kDisplayingAlt \o kTrue \o kNewline

AltTokens == {kTrue, kFalse, kMaybe}

\* The surface the producer shows on frame n: it alternates.
ProducerToken(n) == IF n % 2 = 0 THEN kFalse ELSE kTrue

ValidTexts ==
    {MetaText(n, ProducerToken(n)) : n \in 0..MaxFrame}
        \cup {MetaText(1, kMaybe), FrameOnlyText(2)}

InvalidTexts ==
    {NoFrameText, BadIntText, LateErrorText(0)}

File(readable, content) == [readable |-> readable, content |-> content]

Files ==
    {File(TRUE, c) : c \in ValidTexts \cup InvalidTexts} \cup {File(FALSE, <<>>)}

RECURSIVE SeqsUpTo(_, _)
SeqsUpTo(S, n) ==
    IF n = 0 THEN {<<>>}
    ELSE LET shorter == SeqsUpTo(S, n - 1)
         IN  shorter \cup {Append(s, x) : s \in {t \in shorter : Len(t) = n - 1}, x \in S}

(***************************************************************************)
(* The metadata parser (the body of the with-block).                       *)
(***************************************************************************)
\* Python's None for frame_num is <<>>, an integer n is <<n>>;
\* displaying_alt is one of "None", "True", "False".
NoFrame == <<>>

ParseState(frame_num, displaying_alt, raised) ==
    [frame_num |-> frame_num, displaying_alt |-> displaying_alt, raised |-> raised]

\* line.split(': ')[1].strip(): <<>> stands for the IndexError of [1]
SecondField(line) ==
    LET parts == Split(line, kSep)
    IN  IF Len(parts) < 2 THEN <<>> ELSE <<Strip(parts[2])>>

\* One iteration of `for line in content.split('\n')`.
ParseLine(st, line) ==
    IF st.raised # "" THEN st
    ELSE IF StartsWith(line, kFrame) THEN
        LET f == SecondField(line)
        IN  IF f = <<>> THEN ParseState(st.frame_num, st.displaying_alt, "IndexError")
            ELSE IF ~IntOk(f[1]) THEN ParseState(st.frame_num, st.displaying_alt, "ValueError")
            ELSE ParseState(<<IntValue(f[1])>>, st.displaying_alt, "")
    ELSE IF StartsWith(line, kDisplayingAlt) THEN
        LET f == SecondField(line)
        IN  IF f = <<>> THEN ParseState(st.frame_num, st.displaying_alt, "IndexError")
            ELSE ParseState(st.frame_num, IF f[1] = kTrue THEN "True" ELSE "False", "")
    ELSE st

RECURSIVE ParseLines(_, _)
ParseLines(st, lines) ==
    IF lines = <<>> THEN st
    ELSE ParseLines(ParseLine(st, Head(lines)), Tail(lines))

\* frame_num = None; displaying_alt = None; the loop over the lines.
ParseMeta(content) ==
    ParseLines(ParseState(NoFrame, "None", ""), Split(content, kNewline))

\* open(meta_file) and f.read(), then the parse.
ReadAndParse(file) ==
    IF ~file.readable THEN ParseState(NoFrame, "None", "OSError")
    ELSE ParseMeta(file.content)

\* Variant: a handler that catches only the failure to open or read.
CaughtOSErrorOnly(exc) == exc = "OSError"

\* `except Exception`: the exceptions the try-block can raise are all
\* subclasses of Exception.
Caught(exc) == exc \in {"OSError", "ValueError", "IndexError", "UnicodeDecodeError"}

(***************************************************************************)
(* Printed lines.                                                          *)
(***************************************************************************)
Line(kind, a, b, c, s) == [kind |-> kind, a |-> a, b |-> b, c |-> c, s |-> s]

Plain(kind) == Line(kind, 0, 0, 0, "")

\* "Frame {frame_num:04d}: DisplayingAlt={displaying_alt}"
FrameSummaryLine(frame_num, displaying_alt) == Line("FrameSummary", frame_num, 0, 0, displaying_alt)

\* "Error parsing {meta_file.name}: {e}"
ParseErrorLine(file_pos, exc) == Line("ParseError", file_pos, 0, 0, exc)

\* The lower bound the range statement and the no-gaps line print.
RangeLow(frame_nums) == 0

RECURSIVE SeqMax(_)
SeqMax(s) ==
    IF Len(s) = 1 THEN s[1]
    ELSE LET m == SeqMax(Tail(s)) IN IF Head(s) > m THEN Head(s) ELSE m

\* "Frame 0 to {max(frame_nums)}"
RangeLine(frame_nums) == Line("Range", RangeLow(frame_nums), SeqMax(frame_nums), 0, "")

\* "No gaps in frames 0 to {max(frame_nums)}"
NoGapsLine(frame_nums) == Line("NoGaps", RangeLow(frame_nums), SeqMax(frame_nums), 0, "")

\* "Found {len(gaps)} gaps in frame sequence:"
GapsFoundLine(gaps) == Line("GapsFound", Len(gaps), 0, 0, "")

\* "Gap between frame {start} and {end} (missing {end-start-1} frames)"
GapLine(gap) == Line("Gap", gap[1], gap[2], gap[2] - gap[1] - 1, "")

\* 'Alt' if alt else 'Primary ': None and False are both falsy.
SurfaceName(alt) == IF alt = "True" THEN "Alt" ELSE "Primary "

\* "Frame {frame_num:04d}: Surface {...} being displayed"
SurfaceLine(frame_num, alt) == Line("Surface", frame_num, 0, 0, SurfaceName(alt))

(***************************************************************************)
(* The sequence check: sorted keys, gaps.                                  *)
(***************************************************************************)
RECURSIVE InsertSorted(_, _)
InsertSorted(x, s) ==
    IF s = <<>> THEN <<x>>
    ELSE IF x <= Head(s) THEN <<x>> \o s
    ELSE <<Head(s)>> \o InsertSorted(x, Tail(s))

\* Variant: the keys taken in the dict's own order, never sorted.
SortedAsInserted(s) == s

\* sorted(...)
RECURSIVE Sorted(_)
Sorted(s) ==
    IF s = <<>> THEN <<>> ELSE InsertSorted(Head(s), Sorted(Tail(s)))

\* Variant: a gap test that overlooks a single missing frame.
IsGapWide(lo, hi) == hi - lo > 2

\* frame_nums[i+1] - frame_nums[i] != 1
IsGap(lo, hi) == hi - lo # 1

\* The gap loop from position i (1-based) on.
RECURSIVE GapsFrom(_, _)
GapsFrom(frame_nums, i) ==
    IF i >= Len(frame_nums) THEN <<>>
    ELSE (IF IsGap(frame_nums[i], frame_nums[i + 1])
          THEN <<(<<frame_nums[i], frame_nums[i + 1]>>)>>
          ELSE <<>>)
         \o GapsFrom(frame_nums, i + 1)

FindGaps(frame_nums) == GapsFrom(frame_nums, 1)

\* [:10]
FirstN(s, n) == SubSeq(s, 1, IF Len(s) < n THEN Len(s) ELSE n)

(***************************************************************************)
(* analyze_dumps() as a state machine.                                     *)
(***************************************************************************)
EmptyDict == [n \in {} |-> 0]

Init ==
    /\ frame_files \in SeqsUpTo(Files, MaxFiles)
    /\ raw_files \in RawCounts
    /\ frames = EmptyDict
    /\ frames_order = <<>>
    /\ idx = 1
    /\ visited = <<>>
    /\ pc = "start"
    /\ output = <<>>

\* Variant: return early only when no raw file was found either.
NoFilesAtAll == Len(frame_files) = 0 /\ raw_files = 0

\* `not frame_files`
NoFrameFiles == Len(frame_files) = 0

\* The directory and the file counts.
Discover ==
    /\ pc = "start"
    /\ output' = output \o <<Plain("TempDir"),
                             Line("FoundMeta", Len(frame_files), 0, 0, ""),
                             Line("FoundRaw", raw_files, 0, 0, ""),
                             Plain("Blank")>>
    /\ pc' = "discovered"
    /\ UNCHANGED <<frame_files, raw_files, frames, frames_order, idx, visited>>

\* No metadata files: the notice, and return.
NoDumps ==
    /\ pc = "discovered"
    /\ NoFrameFiles
    /\ output' = Append(output, Plain("NoDumps"))
    /\ pc' = "done"
    /\ UNCHANGED <<frame_files, raw_files, frames, frames_order, idx, visited>>

\* The section header, frames = {}, and the loop is entered.
StartAnalysis ==
    /\ pc = "discovered"
    /\ ~NoFrameFiles
    /\ output' = Append(output, Plain("SeqAnalysisHeader"))
    /\ frames' = EmptyDict
    /\ frames_order' = <<>>
    /\ idx' = 1
    /\ pc' = "loop"
    /\ UNCHANGED <<frame_files, raw_files, visited>>

\* frames[frame_num] = {'meta': ..., 'displaying_alt': ..., 'file': ...}
Record(content, displaying_alt, file_pos) ==
    [meta |-> content, displaying_alt |-> displaying_alt, file |-> file_pos]

\* Variant: an insertion that keeps the record already stored for the key.
DictSetKeepFirst(d, k, v) == [n \in DOMAIN d \cup {k} |-> IF n \in DOMAIN d THEN d[n] ELSE v]

\* d[k] = v
DictSet(d, k, v) == [n \in DOMAIN d \cup {k} |-> IF n = k THEN v ELSE d[n]]

\* A dict keeps a key where it was first inserted.
OrderSet(order, d, k) == IF k \in DOMAIN d THEN order ELSE Append(order, k)

\* What one iteration does with the outcome r of reading and parsing the file.
Handle(file, r) ==
    IF r.raised # "" THEN
        /\ UNCHANGED <<frames, frames_order>>
        /\ IF Caught(r.raised)
           THEN /\ output' = Append(output, ParseErrorLine(idx, r.raised))
                /\ pc' = "loop"
           ELSE /\ output' = output
                /\ pc' = "aborted"
    ELSE IF r.frame_num # NoFrame THEN
        /\ frames' = DictSet(frames, r.frame_num[1],
                             Record(file.content, r.displaying_alt, idx))
        /\ frames_order' = OrderSet(frames_order, frames, r.frame_num[1])
        /\ output' = Append(output, FrameSummaryLine(r.frame_num[1], r.displaying_alt))
        /\ pc' = "loop"
    ELSE
        /\ UNCHANGED <<frames, frames_order, output>>
        /\ pc' = "loop"

\* One iteration of `for meta_file in frame_files`, try and except included.
ProcessFile ==
    /\ pc = "loop"
    /\ idx <= Len(frame_files)
    /\ Handle(frame_files[idx], ReadAndParse(frame_files[idx]))
    /\ idx' = idx + 1
    /\ visited' = Append(visited, idx)
    /\ UNCHANGED <<frame_files, raw_files>>

\* `if frames:`
HasFrames == DOMAIN frames # {}

\* What `if frames:` prints up to the gap report.
SequenceReport ==
    LET frame_nums == Sorted(frames_order)
        gaps == FindGaps(frame_nums)
    IN  <<RangeLine(frame_nums)>>
        \o (IF gaps # <<>>
            THEN <<GapsFoundLine(gaps)>> \o [j \in 1..Len(gaps) |-> GapLine(gaps[j])]
            ELSE <<NoGapsLine(frame_nums)>>)

\* After the loop: the check header, then range and gaps when frames is not empty.
SequenceCheck ==
    /\ pc = "loop"
    /\ idx > Len(frame_files)
    /\ output' = output \o <<Plain("Blank"), Plain("SeqCheckHeader")>>
                        \o (IF HasFrames THEN SequenceReport ELSE <<>>)
    /\ pc' = IF HasFrames THEN "pattern" ELSE "done"
    /\ UNCHANGED <<frame_files, raw_files, frames, frames_order, idx, visited>>

\* The alternation listing of the first 10 frames.
Pattern ==
    /\ pc = "pattern"
    /\ LET shown == FirstN(Sorted(frames_order), DisplayWindow)
       IN  output' = output \o <<Plain("Blank"), Plain("PatternHeader")>>
                            \o [j \in 1..Len(shown) |->
                                   SurfaceLine(shown[j], frames[shown[j]].displaying_alt)]
    /\ pc' = "done"
    /\ UNCHANGED <<frame_files, raw_files, frames, frames_order, idx, visited>>

Next ==
    \/ Discover
    \/ NoDumps
    \/ StartAnalysis
    \/ ProcessFile
    \/ SequenceCheck
    \/ Pattern

Spec == Init /\ [][Next]_vars

(***************************************************************************)
(* Vocabulary of the properties.                                           *)
(***************************************************************************)
\* The file positions the loop has finished with.
Processed == 1..(idx - 1)

\* The check phase has run.
Checked == pc \in {"pattern", "done"} /\ Len(frame_files) > 0

\* The well-formed metadata records of frame n, as the producer writes them.
WellFormedTexts ==
    [n \in 0..MaxFrame |-> {FrameOnlyText(n)} \cup {MetaText(n, tok) : tok \in AltTokens}]

\* The file is a well-formed metadata record of frame n.
FrameWritten(file, n) ==
    /\ file.readable
    /\ file.content \in WellFormedTexts[n]

\* The file is a well-formed metadata record of some frame.
ValidFile(file) == \E n \in 0..MaxFrame : FrameWritten(file, n)

\* The processed files that are records of frame n.
WritersOf(n) == {k \in Processed : FrameWritten(frame_files[k], n)}

SetMax(S) == CHOOSE x \in S : \A y \in S : y <= x

SetMin(S) == CHOOSE x \in S : \A y \in S : x <= y

LinesOf(kind) == {j \in 1..Len(output) : output[j].kind = kind}

IsGapOutput(l) == l.kind = "Gap"

GapOutput == SelectSeq(output, IsGapOutput)

RECURSIVE SumMissing(_)
SumMissing(ls) == IF ls = <<>> THEN 0 ELSE Head(ls).c + SumMissing(Tail(ls))

\* The adjacent pairs of the ascending index sequence that are not consecutive.
ExpectedGaps ==
    {<<a, b>> \in (DOMAIN frames) \X (DOMAIN frames) :
        /\ a < b
        /\ b - a # 1
        /\ ~\E m \in DOMAIN frames : a < m /\ m < b}

(***************************************************************************)
(* C1: after the check phase, the printed gaps are exactly the adjacent    *)
(* pairs (a, b) of the ascending index sequence with b - a # 1, each with  *)
(* missing count b - a - 1, in ascending order, whatever the order the     *)
(* files were processed in; the gap count line agrees, and the no-gaps     *)
(* line is printed exactly when there is none.                             *)
(***************************************************************************)
C1_GapDetection ==
    (Checked /\ DOMAIN frames # {}) =>
        /\ {<<GapOutput[j].a, GapOutput[j].b>> : j \in 1..Len(GapOutput)} = ExpectedGaps
        /\ \A j \in 1..Len(GapOutput) : GapOutput[j].c = GapOutput[j].b - GapOutput[j].a - 1
        /\ \A j \in 1..(Len(GapOutput) - 1) : GapOutput[j].a < GapOutput[j + 1].a
        /\ IF ExpectedGaps = {}
           THEN LinesOf("NoGaps") # {} /\ LinesOf("GapsFound") = {}
           ELSE /\ LinesOf("NoGaps") = {}
                /\ \E j \in LinesOf("GapsFound") : output[j].a = Cardinality(ExpectedGaps)

\* Two gaps reported from files processed out of index order.
C1_Witness ==
    /\ pc = "done"
    /\ Len(GapOutput) = 2
    /\ \E j \in 1..(Len(frames_order) - 1) : frames_order[j] > frames_order[j + 1]

(***************************************************************************)
(* C2: after the check phase on a non-empty registry, the range statement  *)
(* and the no-gaps confirmation give exactly [min, max] of the indices     *)
(* present, also when the smallest index is greater than 0.                *)
(***************************************************************************)
C2_RangeIsMinMax ==
    (Checked /\ DOMAIN frames # {}) =>
        /\ \E j \in LinesOf("Range") :
              /\ output[j].a = SetMin(DOMAIN frames)
              /\ output[j].b = SetMax(DOMAIN frames)
        /\ \A j \in LinesOf("NoGaps") :
              /\ output[j].a = SetMin(DOMAIN frames)
              /\ output[j].b = SetMax(DOMAIN frames)

(***************************************************************************)
(* C3: the per-file loop visits every file exactly once, in order, and no  *)
(* unreadable or malformed file aborts the run; every well-formed file     *)
(* processed so far has its index in the registry and a summary line       *)
(* printed, whatever the files around it; the run is only ever at a        *)
(* position that has a next step or is the end (never aborted), and once   *)
(* the loop is left the sequence-check header is printed.                  *)
(***************************************************************************)
C3_PartialFailureTolerance ==
    /\ pc \in {"start", "discovered", "loop", "pattern", "done"}
    /\ pc = "loop" => idx <= Len(frame_files) + 1
    /\ visited = [k \in Processed |-> k]
    /\ \A k \in Processed : \A n \in 0..MaxFrame :
          FrameWritten(frame_files[k], n) =>
              /\ n \in DOMAIN frames
              /\ \E j \in LinesOf("FrameSummary") : output[j].a = n
    /\ Cardinality(LinesOf("FrameSummary"))
          = Cardinality({k \in Processed : ValidFile(frame_files[k])})
    /\ Checked =>
          /\ Len(visited) = Len(frame_files)
          /\ LinesOf("SeqCheckHeader") # {}

\* A finished run over an unreadable file, a malformed file and then a valid one.
C3_Witness ==
    /\ pc = "done"
    /\ Len(frame_files) = 3
    /\ ~frame_files[1].readable
    /\ frame_files[2].content = BadIntText
    /\ ValidFile(frame_files[3])
    /\ LinesOf("FrameSummary") # {}

(***************************************************************************)
(* C4: every processed file that yields no registry record (unreadable,    *)
(* non-integer Frame, or no Frame key) has a diagnostic line naming it.    *)
(***************************************************************************)
C4_NoSilentDrop ==
    \A k \in Processed :
        ~ValidFile(frame_files[k]) =>
            \E j \in LinesOf("ParseError") : output[j].a = k

(***************************************************************************)
(* C5: DisplayingAlt `true` parses to true, `false` to false, any other    *)
(* token or an absent key to unknown; the alternation listing renders an   *)
(* unknown flag as "Unknown", never as "Primary" or "Alt".                 *)
(***************************************************************************)
C5_ThreeValuedFlag ==
    /\ \A n \in DOMAIN frames :
          LET content == frame_files[frames[n].file].content
              alt == frames[n].displaying_alt
          IN  /\ content = MetaText(n, kTrue) => alt = "True"
              /\ content = MetaText(n, kFalse) => alt = "False"
              /\ content = MetaText(n, kMaybe) => alt = "None"
              /\ content = FrameOnlyText(n) => alt = "None"
    /\ \A j \in LinesOf("Surface") :
          LET alt == frames[output[j].a].displaying_alt
          IN  /\ alt = "None" => output[j].s = "Unknown"
              /\ alt = "True" => output[j].s = "Alt"
              /\ alt = "False" => output[j].s = "Primary "

(***************************************************************************)
(* C6: when two or more parsed files of a finished run carry the same      *)
(* frame index, the report holds a line giving the number of collisions.   *)
(***************************************************************************)
Collisions ==
    Cardinality({k \in Processed : ValidFile(frame_files[k])}) - Cardinality(DOMAIN frames)

C6_CollisionsReported ==
    (pc = "done" /\ Collisions > 0) =>
        \E j \in LinesOf("Collisions") : output[j].a = Collisions

(***************************************************************************)
(* C7: with no metadata file, whatever the number of raw files, the run    *)
(* prints the directory, the two counts, a blank line and the "no frame    *)
(* dumps found" notice, and is done: the parse loop is never entered and   *)
(* no analysis, check, gap or alternation section is printed.              *)
(***************************************************************************)
C7_EmptyDiscovery ==
    Len(frame_files) = 0 =>
        /\ pc \in {"start", "discovered", "done"}
        /\ visited = <<>>
        /\ frames = EmptyDict
        /\ pc = "done" =>
              output = <<Plain("TempDir"),
                         Line("FoundMeta", 0, 0, 0, ""),
                         Line("FoundRaw", raw_files, 0, 0, ""),
                         Plain("Blank"),
                         Plain("NoDumps")>>

\* A finished run that found raw files and no metadata file.
C7_Witness ==
    /\ pc = "done"
    /\ Len(frame_files) = 0
    /\ raw_files > 0
    /\ LinesOf("NoDumps") # {}

(***************************************************************************)
(* C8: when metadata files were found and none yielded a record, the run   *)
(* reports "no frames found" and prints no range, gap or alternation       *)
(* output.                                                                 *)
(***************************************************************************)
C8_EmptyRegistryReported ==
    (pc = "done" /\ Len(frame_files) > 0 /\ DOMAIN frames = {}) =>
        /\ LinesOf("NoFramesFound") # {}
        /\ \A j \in 1..Len(output) :
              output[j].kind \notin {"Range", "GapsFound", "Gap", "NoGaps", "PatternHeader", "Surface"}

(***************************************************************************)
(* C9: after any prefix of the files, the registry's keys are exactly the  *)
(* Frame values of the well-formed files of the prefix (integers, never    *)
(* None), and each key maps to the record of the last such file; so a file *)
(* that fails to parse leaves the registry as it was.                      *)
(***************************************************************************)
C9_RegistryContent ==
    /\ DOMAIN frames = {n \in 0..MaxFrame : WritersOf(n) # {}}
    /\ \A n \in DOMAIN frames :
          /\ n \in Int
          /\ frames[n].file = SetMax(WritersOf(n))
          /\ frames[n].meta = frame_files[SetMax(WritersOf(n))].content

\* Three files processed: two records of one index around a file that failed.
C9_Witness ==
    /\ pc = "loop"
    /\ idx = 4
    /\ ~ValidFile(frame_files[2])
    /\ \E n \in DOMAIN frames : WritersOf(n) = {1, 3} /\ frames[n].file = 3

(***************************************************************************)
(* C10: after the check phase on a non-empty registry, the number of       *)
(* indices present plus the missing counts of the printed gaps is          *)
(* max - min + 1, every missing count is at least 1, and no gap is printed *)
(* exactly when the indices are the whole interval [min, max].             *)
(***************************************************************************)
C10_GapAccounting ==
    (Checked /\ DOMAIN frames # {}) =>
        LET lo == SetMin(DOMAIN frames)
            hi == SetMax(DOMAIN frames)
        IN  /\ Cardinality(DOMAIN frames) + SumMissing(GapOutput) = hi - lo + 1
            /\ \A j \in 1..Len(GapOutput) : GapOutput[j].c >= 1
            /\ (GapOutput = <<>>) <=> (DOMAIN frames = lo..hi)

\* A finished run whose gaps miss more than one frame in all.
C10_Witness ==
    /\ pc = "done"
    /\ Cardinality(DOMAIN frames) >= 2
    /\ SumMissing(GapOutput) >= 2

====
